---- MODULE Spec2Model ----
(***************************************************************************)
(* Model of disty-cli: the partitioned parser (src/parsing.rs), the        *)
(* line-by-line reader of the binary (src/main.rs read_input), the         *)
(* statistical summary (src/stats.rs) and its quantile query.              *)
(*                                                                         *)
(* Bytes are one-character strings; a byte region is a sequence of bytes.  *)
(* f64 values are records [k, n, d]: k = "fin" is the rational n/d in      *)
(* lowest terms (d > 0), k = "inf" is +/-infinity (sign in n), k = "nan"   *)
(* is NaN, k = "sym" is a finite value the model does not compute (the     *)
(* result of ln, exp or sqrt).  Arithmetic on finite values is exact:      *)
(* rounding and the sign of zero are not modelled.                         *)
(***************************************************************************)
EXTENDS Integers, Sequences, FiniteSets, TLC

\* ------------------------------------------------------------------ bounds
MaxLines == 3
MaxThreads == 3
MaxSamples == 3
MaxHexLen == 3
\* the points plotted; CHART_WIDTH is 160 in main.rs
ChartWidth == 3

\* --------------------------------------------------------------- f64 values
Abs(i) == IF i < 0 THEN -i ELSE i

RECURSIVE GCD(_, _)
GCD(a, b) == IF b = 0 THEN a ELSE GCD(b, a % b)

Rat(n, d) ==
    LET s == IF d < 0 THEN -1 ELSE 1
        g == GCD(Abs(n), Abs(d))
    IN  [k |-> "fin", n |-> (s * n) \div g, d |-> (s * d) \div g]

Fin(i) == [k |-> "fin", n |-> i, d |-> 1]
NaN == [k |-> "nan", n |-> 0, d |-> 1]
PosInf == [k |-> "inf", n |-> 1, d |-> 1]
NegInf == [k |-> "inf", n |-> -1, d |-> 1]
Zero == Fin(0)
One == Fin(1)

IsNaN(x) == x.k = "nan"
IsFinite(x) == x.k \in {"fin", "sym"}
Sgn(x) == IF x.n > 0 THEN 1 ELSE IF x.n < 0 THEN -1 ELSE 0
InfOf(s) == IF s > 0 THEN PosInf ELSE NegInf

FNeg(x) == IF x.k = "nan" THEN NaN ELSE [x EXCEPT !.n = -x.n]

FAdd(a, b) ==
    IF a.k = "nan" \/ b.k = "nan" THEN NaN
    ELSE IF a.k = "inf" /\ b.k = "inf" THEN (IF a.n = b.n THEN a ELSE NaN)
    ELSE IF a.k = "inf" THEN a
    ELSE IF b.k = "inf" THEN b
    ELSE LET l == (a.d * b.d) \div GCD(a.d, b.d)
         IN  Rat(a.n * (l \div a.d) + b.n * (l \div b.d), l)

FSub(a, b) == FAdd(a, FNeg(b))

FMul(a, b) ==
    IF a.k = "nan" \/ b.k = "nan" THEN NaN
    ELSE IF a.k = "inf" \/ b.k = "inf"
         THEN (IF Sgn(a) = 0 \/ Sgn(b) = 0 THEN NaN ELSE InfOf(Sgn(a) * Sgn(b)))
    ELSE Rat(a.n * b.n, a.d * b.d)

FDiv(a, b) ==
    IF a.k = "nan" \/ b.k = "nan" THEN NaN
    ELSE IF a.k = "inf" THEN (IF b.k = "inf" THEN NaN
                              ELSE InfOf(a.n * (IF Sgn(b) < 0 THEN -1 ELSE 1)))
    ELSE IF b.k = "inf" THEN Zero
    ELSE IF b.n = 0 THEN (IF a.n = 0 THEN NaN ELSE InfOf(Sgn(a)))
    ELSE Rat(a.n * b.d, a.d * b.n)

\* a < b, a <= b, a == b on f64: every comparison with NaN is false
FLt(a, b) ==
    /\ a.k # "nan" /\ b.k # "nan"
    /\ IF a.k = "inf" THEN a.n < 0 /\ \lnot (b.k = "inf" /\ b.n < 0)
       ELSE IF b.k = "inf" THEN b.n > 0
       ELSE a.n * b.d < b.n * a.d
FEq(a, b) == a.k # "nan" /\ b.k # "nan" /\ a = b
FLe(a, b) == FLt(a, b) \/ FEq(a, b)
FGt(a, b) == FLt(b, a)
FGe(a, b) == FLe(b, a)

\* f64::floor, f64::ceil
FFloor(x) == IF x.k = "fin" THEN Fin(x.n \div x.d) ELSE x
FCeil(x) == IF x.k = "fin" THEN Fin(-((-x.n) \div x.d)) ELSE x

\* `x as usize`: a saturating cast that truncates; NaN and negatives become 0
\* (the cast of +infinity is never taken: a rank is finite or NaN)
AsUsize(x) ==
    CASE x.k = "nan" -> 0
      [] x.k = "fin" -> IF x.n < 0 THEN 0 ELSE x.n \div x.d

RECURSIVE FSum(_)
\* Iterator::sum::<f64>() : left fold from 0.0
FSum(s) == IF s = <<>> THEN Zero
           ELSE FAdd(FSum(SubSeq(s, 1, Len(s) - 1)), s[Len(s)])

\* ------------------------------------------------------------ byte regions
NL == "\n"
\* stands for a byte >= 0x80 that is not valid UTF-8 on its own
BadByte == "<FF>"

\* u8::is_ascii_whitespace
IsAsciiWhitespace(b) == b \in {" ", "\t", "\n", "\f", "\r"}

DecDigits == <<"0", "1", "2", "3", "4", "5", "6", "7", "8", "9">>
HexLetters == <<"a", "b", "c", "d", "e", "f">>
HexUpper == <<"A", "B", "C", "D", "E", "F">>

IsDecDigit(b) == \E i \in 1..10 : DecDigits[i] = b
DecVal(b) == (CHOOSE i \in 1..10 : DecDigits[i] = b) - 1
IsHexDigit(b) == IsDecDigit(b) \/ \E i \in 1..6 : HexLetters[i] = b \/ HexUpper[i] = b
HexVal(b) == IF IsDecDigit(b) THEN DecVal(b)
             ELSE 9 + (CHOOSE i \in 1..6 : HexLetters[i] = b \/ HexUpper[i] = b)

\* the lines an input is assembled from: decimal, negative, hexadecimal,
\* padded zero, malformed, literal nan and inf, invalid UTF-8, empty
LineSet == { <<"1">>, <<"-", "1">>, <<"0", "x", "2">>, <<" ", "0">>, <<"x">>,
             <<"n", "a", "n">>, <<"i", "n", "f">>, <<BadByte>>, <<>> }

RECURSIVE JoinLines(_)
\* the lines separated by newlines; a final empty line is a trailing newline
JoinLines(ls) == IF ls = <<>> THEN <<>>
                 ELSE IF Len(ls) = 1 THEN ls[1]
                 ELSE ls[1] \o <<NL>> \o JoinLines(Tail(ls))

LineSeqs == UNION { [1..k -> LineSet] : k \in 0..MaxLines }
Regions == { JoinLines(ls) : ls \in LineSeqs }

\* ------------------------------------------------------------ units.rs
Units == {"None", "Microseconds"}
scale_of(u) == IF u = "Microseconds" THEN 1000 ELSE 1

\* ------------------------------------------------------------ parse_line
None == [some |-> FALSE, v |-> NaN]
Some(x) == [some |-> TRUE, v |-> x]

\* std::str::from_utf8(..).ok()
from_utf8_ok(bs) == \A i \in 1..Len(bs) : bs[i] # BadByte

RECURSIVE DigitsValue(_, _, _)
\* the number written by a non-empty digit string in the given radix
DigitsValue(ds, radix, acc) ==
    IF ds = <<>> THEN acc
    ELSE DigitsValue(Tail(ds), radix, acc * radix + HexVal(Head(ds)))

RECURSIVE StripZeros(_)
StripZeros(ds) == IF ds # <<>> /\ Head(ds) = "0" THEN StripZeros(Tail(ds)) ELSE ds

\* a conversion that keeps the low 64 bits of a literal that does not fit
from_str_radix16_wrapping(hex) ==
    LET ds == IF hex # <<>> /\ Head(hex) = "+" THEN Tail(hex) ELSE hex
    IN  IF ds = <<>> \/ \E i \in 1..Len(ds) : \lnot IsHexDigit(ds[i]) THEN None
        ELSE IF Len(StripZeros(ds)) > 16
             THEN Some(Fin(DigitsValue(SubSeq(ds, Len(ds) - 15, Len(ds)), 16, 0)))
        ELSE Some(Fin(DigitsValue(ds, 16, 0)))

\* u64::from_str_radix(hex, 16).ok(): an optional '+', then one or more hex
\* digits whose value fits 64 bits (at most 16 significant digits)
from_str_radix16(hex) ==
    LET ds == IF hex # <<>> /\ Head(hex) = "+" THEN Tail(hex) ELSE hex
    IN  IF ds = <<>> \/ \E i \in 1..Len(ds) : \lnot IsHexDigit(ds[i]) THEN None
        ELSE IF Len(StripZeros(ds)) > 16 THEN None
        ELSE Some(Fin(DigitsValue(ds, 16, 0)))

\* str::parse::<f64>().ok() on the model's alphabet: an optional sign, then
\* "inf", "infinity", "nan", or decimal digits (no '.', no exponent here)
parse_f64(s) ==
    LET signed == s # <<>> /\ Head(s) \in {"+", "-"}
        neg == signed /\ Head(s) = "-"
        body == IF signed THEN Tail(s) ELSE s
        mag == IF body = <<"n", "a", "n">> THEN Some(NaN)
               ELSE IF body = <<"i", "n", "f">>
                       \/ body = <<"i", "n", "f", "i", "n", "i", "t", "y">>
                    THEN Some(PosInf)
               ELSE IF body # <<>> /\ \A i \in 1..Len(body) : IsDecDigit(body[i])
                    THEN Some(Fin(DigitsValue(body, 10, 0)))
               ELSE None
    IN  IF mag.some /\ neg THEN Some(FNeg(mag.v)) ELSE mag

RECURSIVE TrimStart(_, _, _)
TrimStart(line, start, end) ==
    IF start < end /\ IsAsciiWhitespace(line[start + 1])
    THEN TrimStart(line, start + 1, end) ELSE start

RECURSIVE TrimEnd(_, _, _)
TrimEnd(line, start, end) ==
    IF end > start /\ IsAsciiWhitespace(line[end])
    THEN TrimEnd(line, start, end - 1) ELSE end

\* the decimal branch of parse_line
parse_decimal(s, scale) ==
    LET r == parse_f64(s) IN IF r.some THEN Some(FMul(r.v, Fin(scale))) ELSE None

\* the 0x branch of parse_line
parse_hex(hex, scale) ==
    LET r == from_str_radix16(hex)
    IN  IF r.some THEN Some(FMul(r.v, Fin(scale))) ELSE None

has_0x_prefix(s) == Len(s) >= 2 /\ s[1] = "0" /\ s[2] = "x"

parse_line(line, scale) ==
    LET start == TrimStart(line, 0, Len(line))
        end == TrimEnd(line, start, Len(line))
        trimmed == SubSeq(line, start + 1, end)
    IN  IF start = end THEN None
        ELSE IF \lnot from_utf8_ok(trimmed) THEN None
        ELSE IF has_0x_prefix(trimmed)
             THEN parse_hex(SubSeq(trimmed, 3, Len(trimmed)), scale)
        ELSE parse_decimal(trimmed, scale)

\* ------------------------------------------------------------ parse_chunk
push_some(values, r) == IF r.some THEN Append(values, r.v) ELSE values

RECURSIVE parse_chunk_loop_abort(_, _, _, _, _)
\* a loop that gives up at the first line that does not parse
parse_chunk_loop_abort(chunk, scale, i, start, values) ==
    IF i >= Len(chunk) THEN [start |-> start, values |-> values]
    ELSE IF chunk[i + 1] = NL
         THEN (IF i > start /\ \lnot parse_line(SubSeq(chunk, start + 1, i), scale).some
               THEN [start |-> Len(chunk), values |-> values]
               ELSE parse_chunk_loop_abort(chunk, scale, i + 1, i + 1,
                        IF i > start
                        THEN push_some(values, parse_line(SubSeq(chunk, start + 1, i), scale))
                        ELSE values))
    ELSE parse_chunk_loop_abort(chunk, scale, i + 1, start, values)

RECURSIVE parse_chunk_loop(_, _, _, _, _)
\* the for loop of parse_chunk: i is the index of the byte looked at,
\* start the offset of the current line; yields the final (start, values)
parse_chunk_loop(chunk, scale, i, start, values) ==
    IF i >= Len(chunk) THEN [start |-> start, values |-> values]
    ELSE IF chunk[i + 1] = NL
         THEN parse_chunk_loop(chunk, scale, i + 1, i + 1,
                  IF i > start
                  THEN push_some(values, parse_line(SubSeq(chunk, start + 1, i), scale))
                  ELSE values)
    ELSE parse_chunk_loop(chunk, scale, i + 1, start, values)

parse_chunk(chunk, scale) ==
    LET l == parse_chunk_loop(chunk, scale, 0, 0, <<>>)
    IN  IF l.start < Len(chunk)
        THEN push_some(l.values, parse_line(SubSeq(chunk, l.start + 1, Len(chunk)), scale))
        ELSE l.values

\* --------------------------------------------------- read_file_mmap: split
div_ceil(a, b) == (a + b - 1) \div b

\* a split that is not moved to a line break
next_newline_unaligned(mmap, pos) == pos

RECURSIVE next_newline(_, _)
\* the while loop: advance pos to the next newline or to the region's end
next_newline(mmap, pos) ==
    IF pos < Len(mmap) /\ mmap[pos + 1] # NL THEN next_newline(mmap, pos + 1) ELSE pos

RECURSIVE boundaries_loop_at_newline(_, _, _, _, _)
\* a loop that pushes the offset of the newline itself
boundaries_loop_at_newline(mmap, num_threads, chunk_size, i, boundaries) ==
    IF i >= num_threads THEN boundaries
    ELSE IF i * chunk_size >= Len(mmap) THEN boundaries
    ELSE LET pos == next_newline(mmap, i * chunk_size)
         IN  boundaries_loop_at_newline(mmap, num_threads, chunk_size, i + 1,
                 IF pos < Len(mmap) THEN Append(boundaries, pos) ELSE boundaries)

RECURSIVE boundaries_loop(_, _, _, _, _)
\* for i in 1..num_threads, with its break
boundaries_loop(mmap, num_threads, chunk_size, i, boundaries) ==
    IF i >= num_threads THEN boundaries
    ELSE IF i * chunk_size >= Len(mmap) THEN boundaries
    ELSE LET pos == next_newline(mmap, i * chunk_size)
         IN  boundaries_loop(mmap, num_threads, chunk_size, i + 1,
                 IF pos < Len(mmap) THEN Append(boundaries, pos + 1) ELSE boundaries)

\* boundaries whose last entry is one byte short of the region
compute_boundaries_short(mmap, num_threads) ==
    Append(boundaries_loop(mmap, num_threads, div_ceil(Len(mmap), num_threads), 1, <<0>>),
           Len(mmap) - 1)

\* boundaries without the closing mmap.len()
compute_boundaries_without_end(mmap, num_threads) ==
    boundaries_loop(mmap, num_threads, div_ceil(Len(mmap), num_threads), 1, <<0>>)

compute_boundaries(mmap, num_threads) ==
    Append(boundaries_loop(mmap, num_threads, div_ceil(Len(mmap), num_threads), 1, <<0>>),
           Len(mmap))

\* boundaries.windows(2).map(|w| (w[0], w[1]))
windows2(b) == [j \in 1..(Len(b) - 1) |-> <<b[j], b[j + 1]>>]

RECURSIVE flatten(_)
\* results.into_iter().flatten().collect()
flatten(rs) == IF rs = <<>> THEN <<>> ELSE Head(rs) \o flatten(Tail(rs))

\* ------------------------------------------------------------ read_input
\* BufRead::lines(): the byte region cut at every newline; the text after
\* the last newline is a line only when it is not empty
RECURSIVE lines_of(_, _, _)
lines_of(bytes, i, start) ==
    IF i >= Len(bytes)
    THEN (IF start < Len(bytes) THEN <<SubSeq(bytes, start + 1, Len(bytes))>> ELSE <<>>)
    ELSE IF bytes[i + 1] = NL
         THEN <<SubSeq(bytes, start + 1, i)>> \o lines_of(bytes, i + 1, i + 1)
    ELSE lines_of(bytes, i + 1, start)

ReadOk(values) == [exit |-> "", values |-> values]
ReadExit(msg) == [exit |-> msg, values |-> <<>>]

RECURSIVE read_input_loop(_, _, _)
\* the for loop of read_input over reader.lines()
read_input_loop(ls, scale, values) ==
    IF ls = <<>> THEN ReadOk(values)
    ELSE LET line == Head(ls)
             start == TrimStart(line, 0, Len(line))
             end == TrimEnd(line, start, Len(line))
             trimmed == SubSeq(line, start + 1, end)
         IN  IF \lnot from_utf8_ok(line) THEN ReadExit("error reading input")
             ELSE IF trimmed = <<>> THEN read_input_loop(Tail(ls), scale, values)
             ELSE IF has_0x_prefix(trimmed)
                  THEN LET r == from_str_radix16(SubSeq(trimmed, 3, Len(trimmed)))
                       IN  IF r.some
                           THEN read_input_loop(Tail(ls), scale,
                                    Append(values, FMul(r.v, Fin(scale))))
                           ELSE ReadExit("error parsing hex")
             ELSE LET r == parse_f64(trimmed)
                  IN  IF r.some
                      THEN read_input_loop(Tail(ls), scale,
                               Append(values, FMul(r.v, Fin(scale))))
                      ELSE ReadExit("error parsing number")

read_input(bytes, scale) == read_input_loop(lines_of(bytes, 0, 0), scale, <<>>)

\* ------------------------------------------------------------ Stats::new
\* a.partial_cmp(b): None when either side is NaN
partial_cmp_is_none(a, b) == IsNaN(a) \/ IsNaN(b)

RECURSIVE insert_sorted_dedup(_, _)
\* a sort that keeps one copy of equal values
insert_sorted_dedup(sorted, x) ==
    IF sorted = <<>> THEN <<x>>
    ELSE IF FLt(x, sorted[Len(sorted)])
         THEN Append(insert_sorted_dedup(SubSeq(sorted, 1, Len(sorted) - 1), x),
                     sorted[Len(sorted)])
    ELSE IF FEq(x, sorted[Len(sorted)]) THEN sorted
    ELSE Append(sorted, x)

RECURSIVE insert_sorted(_, _)
\* x placed after every element that is not greater than it (stable)
insert_sorted(sorted, x) ==
    IF sorted = <<>> THEN <<x>>
    ELSE IF FLt(x, sorted[Len(sorted)])
         THEN Append(insert_sorted(SubSeq(sorted, 1, Len(sorted) - 1), x),
                     sorted[Len(sorted)])
    ELSE Append(sorted, x)

RECURSIVE sorted_of(_)
sorted_of(data) ==
    IF data = <<>> THEN <<>>
    ELSE insert_sorted(sorted_of(SubSeq(data, 1, Len(data) - 1)), data[Len(data)])

\* data.sort_by(|a, b| a.partial_cmp(b).unwrap()): a slice of two or more
\* elements compares every element at least once, and unwrap panics on None
sort_panics(data) ==
    /\ Len(data) >= 2
    /\ \E i, j \in 1..Len(data) : i # j /\ partial_cmp_is_none(data[i], data[j])

\* a constructor that forgets to sort
sort_by_skipped(data) == data

sort_by(data) == sorted_of(data)

\* f64::ln, f64::exp, f64::sqrt, f64::powi(2): exact where the model can be
Sym(op, arg) == [k |-> "sym", n |-> 1, d |-> 1, op |-> op, arg |-> arg]

\* data.iter().map(|x| x.ln()).sum() over values known to be > 0
log_sum_of(data) ==
    IF data = <<>> THEN Zero
    ELSE IF \E i \in 1..Len(data) : data[i].k = "inf" THEN PosInf
    ELSE Sym("ln_sum", data)

\* (log_sum / n as f64).exp()
exp_mean(log_sum, n) ==
    IF log_sum.k = "sym" THEN Sym("exp_div", <<log_sum.arg, n>>)
    ELSE LET m == FDiv(log_sum, Fin(n))
         IN  IF m.k \in {"nan", "inf"} THEN m ELSE Sym("exp", m)

\* a test that lets zero through
all_non_negative(data) == \A i \in 1..Len(data) : FGe(data[i], Zero)

all_positive(data) == \A i \in 1..Len(data) : FGt(data[i], Zero)

geo_mean_of(data, n) ==
    IF all_positive(data) THEN exp_mean(log_sum_of(data), n) ELSE NaN

FSqrt(x) ==
    IF x.k = "nan" THEN NaN
    ELSE IF x.k = "inf" THEN (IF x.n > 0 THEN PosInf ELSE NaN)
    ELSE IF x.n < 0 THEN NaN
    ELSE IF x.n = 0 THEN Zero
    ELSE Sym("sqrt", x)

sq_dev(data, mean) ==
    [i \in 1..Len(data) |-> LET dv == FSub(data[i], mean) IN FMul(dv, dv)]

Stats_new(input) ==
    LET data == sort_by(input)
        n == Len(data)
        sum == FSum(data)
        mean == FDiv(sum, Fin(n))
        variance == FDiv(FSum(sq_dev(data, mean)), Fin(n))
    IN  [data |-> data, n |-> n, sum |-> sum, mean |-> mean,
         geo_mean |-> geo_mean_of(data, n),
         variance |-> variance, std_dev |-> FSqrt(variance)]

NoStats == [data |-> <<>>, n |-> -1]

\* ------------------------------------------------------------ Stats::quantile
Returned(x) == [panic |-> FALSE, v |-> x]
IndexPanic == [panic |-> TRUE, v |-> NaN]

\* self.data[i] with its bounds check; an index below zero is a usize that
\* wrapped around, out of range as well
at(data, i) == IF 0 <= i /\ i < Len(data) THEN Returned(data[i + 1]) ELSE IndexPanic

interpolate(st, q) ==
    LET rank == FMul(q, Fin(st.n - 1))
        lower == AsUsize(FFloor(rank))
        upper == AsUsize(FCeil(rank))
        fraction == FSub(rank, Fin(lower))
        lo == at(st.data, lower)
        hi == at(st.data, upper)
    IN  IF lo.panic \/ hi.panic THEN IndexPanic
        ELSE Returned(FAdd(FMul(lo.v, FSub(One, fraction)), FMul(hi.v, fraction)))

\* a quantile without the q >= 1 clamp
quantile_no_upper_clamp(st, q) ==
    IF st.data = <<>> THEN Returned(NaN)
    ELSE IF FLe(q, Zero) THEN at(st.data, 0)
    ELSE interpolate(st, q)

\* a quantile without the empty-data guard
quantile_no_empty_guard(st, q) ==
    IF FLe(q, Zero) THEN at(st.data, 0)
    ELSE IF FGe(q, One) THEN at(st.data, st.n - 1)
    ELSE interpolate(st, q)

quantile(st, q) ==
    IF st.data = <<>> THEN Returned(NaN)
    ELSE IF FLe(q, Zero) THEN at(st.data, 0)
    ELSE IF FGe(q, One) THEN at(st.data, st.n - 1)
    ELSE interpolate(st, q)

\* the q values queried: the percentiles of print_stats_table and the
\* out-of-range and NaN arguments
Qs == { Rat(-1, 2), Zero, Rat(1, 4), Rat(1, 2), Rat(3, 4), One, Rat(3, 2), NaN }

\* ------------------------------------------------------------ kde.rs
\* A value the model cannot write as a fraction (a square root, a fifth
\* root) is kept as k = "rng": a real strictly between the fractions lo and hi.
Rng(lo, hi) == [k |-> "rng", n |-> 1, d |-> 1, lo |-> lo, hi |-> hi]

SqrtGrid == 100
\* above this the root is kept to the unit: the square must fit 32 bits
SqrtGridUpTo == 200000
FifthGrid == 64

RECURSIVE isqrt_search(_, _, _)
\* the largest s in lo..hi with s * s <= v
isqrt_search(v, lo, hi) ==
    IF lo >= hi THEN lo
    ELSE LET mid == (lo + hi + 1) \div 2
         IN  IF mid * mid <= v THEN isqrt_search(v, mid, hi)
                               ELSE isqrt_search(v, lo, mid - 1)

\* variance.sqrt() with its magnitude
RSqrt(x) ==
    IF x.k = "nan" THEN NaN
    ELSE IF x.k = "inf" THEN (IF x.n > 0 THEN PosInf ELSE NaN)
    ELSE IF x.n < 0 THEN NaN
    ELSE IF x.n = 0 THEN Zero
    ELSE LET grid == IF x.n * x.d <= SqrtGridUpTo THEN SqrtGrid ELSE 1
             v == x.n * x.d * grid * grid
             s == isqrt_search(v, 0, 46340)
         IN  IF s * s = v THEN Rat(s, x.d * grid)
             ELSE Rng(Rat(s, x.d * grid), Rat(s + 1, x.d * grid))

Pow5(r) == r * r * r * r * r

\* (n as f64).powf(-0.2)
powf_neg_fifth(n) ==
    IF n = 0 THEN PosInf
    ELSE IF n = 1 THEN One
    ELSE LET cap == Pow5(FifthGrid) \div n
             r == CHOOSE c \in 1..FifthGrid : Pow5(c) <= cap /\ Pow5(c + 1) > cap
         IN  Rng(Rat(r, FifthGrid), Rat(r + 1, FifthGrid))

\* a * b where a and b are not negative
RMul(a, b) ==
    IF a.k = "nan" \/ b.k = "nan" THEN NaN
    ELSE IF a.k # "rng" /\ b.k # "rng" THEN FMul(a, b)
    ELSE IF a.k = "inf" \/ b.k = "inf" THEN PosInf
    ELSE IF a = Zero \/ b = Zero THEN Zero
    ELSE Rng(FMul(IF a.k = "rng" THEN a.lo ELSE a, IF b.k = "rng" THEN b.lo ELSE b),
             FMul(IF a.k = "rng" THEN a.hi ELSE a, IF b.k = "rng" THEN b.hi ELSE b))

\* x - c and x + c for an f64 x and a c that is not negative
RSub(x, c) ==
    IF c.k # "rng" THEN FSub(x, c)
    ELSE IF x.k # "fin" THEN x
    ELSE Rng(FSub(x, c.hi), FSub(x, c.lo))
RAdd(x, c) ==
    IF c.k # "rng" THEN FAdd(x, c)
    ELSE IF x.k # "fin" THEN x
    ELSE Rng(FAdd(x, c.lo), FAdd(x, c.hi))

\* xi < b and xi <= b; against a "rng" the answer is given only where every
\* value between lo and hi gives the same one
RLt(xi, b) ==
    CASE b.k # "rng" -> FLt(xi, b)
      [] b.k = "rng" /\ xi.k = "nan" -> FALSE
      [] b.k = "rng" /\ xi.k = "inf" -> xi.n < 0
      [] b.k = "rng" /\ xi.k = "fin" /\ FLe(xi, b.lo) -> TRUE
      [] b.k = "rng" /\ xi.k = "fin" /\ FGe(xi, b.hi) -> FALSE
RLe(xi, b) == IF b.k # "rng" THEN FLe(xi, b) ELSE RLt(xi, b)

\* KDE { data, bandwidth }
KDE_new(xs) ==
    LET n == Len(xs)
        mean == FDiv(FSum(xs), Fin(n))
        variance == FDiv(FSum(sq_dev(xs, mean)), Fin(n))
        std_dev == RSqrt(variance)
        bandwidth == RMul(RMul(Rat(106, 100), std_dev), powf_neg_fifth(n))
    IN  [data |-> xs, bandwidth |-> bandwidth]

NoKde == [data |-> <<>>, bandwidth |-> Fin(-1)]

RECURSIVE partition_point_lt(_, _, _, _)
\* self.data.partition_point(|&xi| xi < lower): a binary search over left..right
partition_point_lt(xs, lower, left, right) ==
    IF left >= right THEN left
    ELSE LET mid == left + (right - left) \div 2
         IN  IF RLt(xs[mid + 1], lower)
             THEN partition_point_lt(xs, lower, mid + 1, right)
             ELSE partition_point_lt(xs, lower, left, mid)

RECURSIVE partition_point_le_strict(_, _, _, _)
\* an upper search that leaves out a sample equal to the upper cutoff
partition_point_le_strict(xs, upper, left, right) ==
    IF left >= right THEN left
    ELSE LET mid == left + (right - left) \div 2
         IN  IF RLt(xs[mid + 1], upper)
             THEN partition_point_le_strict(xs, upper, mid + 1, right)
             ELSE partition_point_le_strict(xs, upper, left, mid)

RECURSIVE partition_point_le(_, _, _, _)
\* self.data.partition_point(|&xi| xi <= upper)
partition_point_le(xs, upper, left, right) ==
    IF left >= right THEN left
    ELSE LET mid == left + (right - left) \div 2
         IN  IF RLe(xs[mid + 1], upper)
             THEN partition_point_le(xs, upper, mid + 1, right)
             ELSE partition_point_le(xs, upper, left, mid)

\* gaussian_kernel((x - xi) / h): NaN when the argument is NaN (0/0 with a
\* zero bandwidth), 0 when it is infinite, a positive number otherwise
gaussian_kernel_of(x, xi, h) ==
    LET diff == FSub(x, xi)
    IN  IF diff.k = "nan" \/ h.k = "nan" THEN NaN
        ELSE IF h.k = "inf" THEN (IF diff.k = "inf" THEN NaN ELSE Sym("kernel", <<x, xi>>))
        ELSE IF h = Zero THEN (IF diff = Zero THEN NaN ELSE Zero)
        ELSE IF diff.k = "inf" THEN Zero
        ELSE Sym("kernel", <<x, xi>>)

\* the sum of the kernel over data[start_idx..end_idx]
kernel_sum(xs, x, h, start_idx, end_idx) ==
    LET terms == [i \in 1..(end_idx - start_idx) |->
                     gaussian_kernel_of(x, xs[start_idx + i], h)]
    IN  IF \E i \in 1..Len(terms) : terms[i].k = "nan" THEN NaN
        ELSE IF \A i \in 1..Len(terms) : terms[i] = Zero THEN Zero
        ELSE Sym("kernel_sum", <<x, start_idx, end_idx>>)

\* sum / (n * h)
pdf_quotient(sum, n, h) ==
    LET nh == RMul(Fin(n), h)
    IN  IF sum.k = "nan" \/ nh.k = "nan" THEN NaN
        ELSE IF nh.k = "inf" THEN Zero
        ELSE IF nh = Zero THEN (IF sum = Zero THEN NaN ELSE PosInf)
        ELSE IF sum = Zero THEN Zero
        ELSE Sym("pdf", sum.arg)

SlicePanic == [panic |-> TRUE, v |-> NaN, start_idx |-> 0, end_idx |-> 0]

\* a window whose end is searched against the lower cutoff
pdf_window_end_at_lower(est, x) ==
    LET cutoff == RMul(Fin(4), est.bandwidth)
    IN  [start_idx |-> partition_point_lt(est.data, RSub(x, cutoff), 0, Len(est.data)),
         end_idx |-> partition_point_lt(est.data, RSub(x, cutoff), 0, Len(est.data))]

\* a window with the two cutoffs exchanged
pdf_window_swapped(est, x) ==
    LET cutoff == RMul(Fin(4), est.bandwidth)
    IN  [start_idx |-> partition_point_lt(est.data, RAdd(x, cutoff), 0, Len(est.data)),
         end_idx |-> partition_point_le(est.data, RSub(x, cutoff), 0, Len(est.data))]

\* the window of pdf: the two binary searches
pdf_window(est, x) ==
    LET cutoff == RMul(Fin(4), est.bandwidth)
    IN  [start_idx |-> partition_point_lt(est.data, RSub(x, cutoff), 0, Len(est.data)),
         end_idx |-> partition_point_le(est.data, RAdd(x, cutoff), 0, Len(est.data))]

KDE_pdf(est, x) ==
    LET w == pdf_window(est, x)
    IN  IF w.start_idx > w.end_idx THEN SlicePanic
        ELSE [panic |-> FALSE,
              v |-> pdf_quotient(kernel_sum(est.data, x, est.bandwidth,
                                            w.start_idx, w.end_idx),
                                 Len(est.data), est.bandwidth),
              start_idx |-> w.start_idx, end_idx |-> w.end_idx]

\* f64::max: the other operand when one is NaN
f64_max(a, b) == IF IsNaN(a) THEN b ELSE IF IsNaN(b) THEN a
                 ELSE IF FLt(a, b) THEN b ELSE a

\* bounds that pad the lower end only
KDE_bounds_upper_unpadded(est) ==
    LET min == IF est.data = <<>> THEN Zero ELSE est.data[1]
        max == IF est.data = <<>> THEN One ELSE est.data[Len(est.data)]
        padding == FMul(FSub(max, min), Rat(1, 10))
        lower == IF FGe(min, Zero) THEN f64_max(FSub(min, padding), Zero)
                 ELSE FSub(min, padding)
    IN  <<lower, max>>

\* bounds without the clamp at zero
KDE_bounds_unclamped(est) ==
    LET min == IF est.data = <<>> THEN Zero ELSE est.data[1]
        max == IF est.data = <<>> THEN One ELSE est.data[Len(est.data)]
        padding == FMul(FSub(max, min), Rat(1, 10))
    IN  <<FSub(min, padding), FAdd(max, padding)>>

KDE_bounds(est) ==
    LET min == IF est.data = <<>> THEN Zero ELSE est.data[1]
        max == IF est.data = <<>> THEN One ELSE est.data[Len(est.data)]
        padding == FMul(FSub(max, min), Rat(1, 10))
        lower == IF FGe(min, Zero) THEN f64_max(FSub(min, padding), Zero)
                 ELSE FSub(min, padding)
    IN  <<lower, FAdd(max, padding)>>

\* ------------------------------------------------------------ plot_kde
\* main's KDE::new(stats.data.clone()): the bandwidth, then the sort
KDE_new_sorting(xs) == [data |-> sort_by(xs), bandwidth |-> KDE_new(xs).bandwidth]

\* v as f32: the narrowed value, not the f64 it came from
as_f32(v) == [f32 |-> v]

\* min_x + (max_x - min_x) * (i as f64 / (CHART_WIDTH - 1) as f64)
plot_x(min_x, max_x, i, width) ==
    FAdd(min_x, FMul(FSub(max_x, min_x), FDiv(Fin(i), Fin(width - 1))))

\* the closure of the parallel map at index i
plot_point(est, i, width) ==
    LET b == KDE_bounds(est)
        x == plot_x(b[1], b[2], i, width)
        y == KDE_pdf(est, x)
    IN  [panic |-> y.panic, point |-> <<as_f32(x), as_f32(y.v)>>]

NoPoint == [done |-> FALSE, point |-> <<>>]
NoPlot == [slots |-> <<>>, finished |-> <<>>]

\* the sample values a caller hands to Stats::new, and the points queried
SampleValues == { Fin(-1), Zero, Fin(3), PosInf, NaN }
PdfPoints == SampleValues \cup { Rat(1, 2), Fin(6), Fin(-5) }

\* ------------------------------------------------------------ the program
VARIABLES
    pc,           \* where the run is: "start", "mapped", "forked", "parsed",
                  \* "summarised", "returned", "exited", "panicked"
    entry,        \* "lib": parsing::read_file_mmap; "main": main's read_input
    mmap,         \* the bytes of the input
    scale,        \* unit.map(|u| u.scale()).unwrap_or(1.0)
    exit_msg,     \* what was printed before the process ended, "" if nothing
    chunks,       \* read_file_mmap: the (start, end) partitions
    results,      \* read_file_mmap: each partition's private result
    data,         \* the Vec<f64> the reader returned
    stats,        \* the Stats built from data
    query,        \* the last quantile call: <<q, result>>, <<>> before any
    kde,          \* the KDE built over stats.data, NoKde before KDE::new
    kquery,       \* the last pdf or bounds call and its result, <<>> before any
    plot,         \* plot_kde: the slot of every query index and the order in
                  \* which the evaluations finished
    points        \* plot_kde: the collected Vec<(f32, f32)>

vars == <<pc, entry, mmap, scale, exit_msg, chunks, results, data, stats, query,
         kde, kquery, plot, points>>

Pending == [done |-> FALSE, values |-> <<>>]
Done(values) == [done |-> TRUE, values |-> values]

Init ==
    /\ pc = "start"
    /\ entry = ""
    /\ mmap \in Regions
    /\ scale = 1
    /\ exit_msg = ""
    /\ chunks = <<>>
    /\ results = <<>>
    /\ data = <<>>
    /\ stats = NoStats
    /\ query = <<>>
    /\ kde = NoKde
    /\ kquery = <<>>
    /\ plot = NoPlot
    /\ points = <<>>

\* read_file_mmap, lines 10-17: the mapping succeeds
MapFile(unit) ==
    /\ pc = "start"
    /\ pc' = "mapped"
    /\ entry' = "lib"
    /\ scale' = scale_of(unit)
    /\ UNCHANGED <<mmap, exit_msg, chunks, results, data, stats, query, kde, kquery, plot, points>>

\* read_file_mmap, lines 13-16: Mmap::map fails
MapFail ==
    /\ pc = "start"
    /\ pc' = "exited"
    /\ entry' = "lib"
    /\ exit_msg' = "error mapping file"
    /\ UNCHANGED <<mmap, scale, chunks, results, data, stats, query, kde, kquery, plot, points>>

\* read_file_mmap, lines 19-21
ReturnEmpty ==
    /\ pc = "mapped"
    /\ mmap = <<>>
    /\ pc' = "parsed"
    /\ data' = <<>>
    /\ UNCHANGED <<entry, mmap, scale, exit_msg, chunks, results, stats, query, kde, kquery, plot, points>>

\* a split that does not look at the length of the region first
Partition_without_empty_check(num_threads) ==
    /\ pc = "mapped"
    /\ pc' = "forked"
    /\ chunks' = windows2(compute_boundaries(mmap, num_threads))
    /\ results' = [j \in 1..Len(chunks') |-> Pending]
    /\ UNCHANGED <<entry, mmap, scale, exit_msg, data, stats, query, kde, kquery, plot, points>>

\* read_file_mmap, lines 23-42: the partitions for the pool's thread count
Partition(num_threads) ==
    /\ pc = "mapped"
    /\ mmap # <<>>
    /\ pc' = "forked"
    /\ chunks' = windows2(compute_boundaries(mmap, num_threads))
    /\ results' = [j \in 1..Len(chunks') |-> Pending]
    /\ UNCHANGED <<entry, mmap, scale, exit_msg, data, stats, query, kde, kquery, plot, points>>

\* read_file_mmap, lines 44-50: one partition parsed by a pool thread
Worker(j) ==
    /\ pc = "forked"
    /\ j \in 1..Len(chunks)
    /\ \lnot results[j].done
    /\ results' = [results EXCEPT
          ![j] = Done(parse_chunk(SubSeq(mmap, chunks[j][1] + 1, chunks[j][2]), scale))]
    /\ UNCHANGED <<pc, entry, mmap, scale, exit_msg, chunks, data, stats, query, kde, kquery, plot, points>>

\* a join that does not wait for the partitions still being parsed
Join_without_barrier ==
    /\ pc = "forked"
    /\ pc' = "parsed"
    /\ data' = flatten([j \in 1..Len(results) |-> results[j].values])
    /\ chunks' = <<>>
    /\ results' = <<>>
    /\ UNCHANGED <<entry, mmap, scale, exit_msg, stats, query, kde, kquery, plot, points>>

\* read_file_mmap, lines 50-53: collect() returns once every partition is
\* parsed; the results are flattened and the locals dropped
Join ==
    /\ pc = "forked"
    /\ \A j \in 1..Len(results) : results[j].done
    /\ pc' = "parsed"
    /\ data' = flatten([j \in 1..Len(results) |-> results[j].values])
    /\ chunks' = <<>>
    /\ results' = <<>>
    /\ UNCHANGED <<entry, mmap, scale, exit_msg, stats, query, kde, kquery, plot, points>>

\* main, line 179: read_input over the whole input
ReadInput(unit) ==
    /\ pc = "start"
    /\ entry' = "main"
    /\ scale' = scale_of(unit)
    /\ LET r == read_input(mmap, scale_of(unit))
       IN  IF r.exit # ""
           THEN pc' = "exited" /\ exit_msg' = r.exit /\ data' = data
           ELSE pc' = "parsed" /\ exit_msg' = exit_msg /\ data' = r.values
    /\ UNCHANGED <<mmap, chunks, results, stats, query, kde, kquery, plot, points>>

\* main, lines 181-184
NoInput ==
    /\ pc = "parsed"
    /\ entry = "main"
    /\ data = <<>>
    /\ pc' = "returned"
    /\ exit_msg' = "no input"
    /\ UNCHANGED <<entry, mmap, scale, chunks, results, data, stats, query, kde, kquery, plot, points>>

\* Stats::new(data); main calls it only on non-empty data
StatsNew ==
    /\ pc = "parsed"
    /\ entry = "main" => data # <<>>
    /\ IF sort_panics(data)
       THEN pc' = "panicked" /\ stats' = stats
       ELSE pc' = "summarised" /\ stats' = Stats_new(data)
    /\ UNCHANGED <<entry, mmap, scale, exit_msg, chunks, results, data, query, kde, kquery, plot, points>>

\* stats.quantile(q)
Quantile(q) ==
    /\ pc = "summarised"
    /\ LET r == quantile(stats, q)
       IN  /\ query' = <<q, r>>
           /\ pc' = IF r.panic THEN "panicked" ELSE pc
    /\ UNCHANGED <<entry, mmap, scale, exit_msg, chunks, results, data, stats, kde, kquery, plot, points>>

Next ==
    \/ \E u \in Units : MapFile(u)
    \/ MapFail
    \/ ReturnEmpty
    \/ \E t \in 1..MaxThreads : Partition(t)
    \/ \E j \in 1..(MaxThreads + 1) : Worker(j)
    \/ Join
    \/ \E u \in Units : ReadInput(u)
    \/ NoInput
    \/ StatsNew
    \/ \E q \in Qs : Quantile(q)

Spec == Init /\ [][Next]_vars

\* KDE::new(&stats.data)
KdeNew ==
    /\ pc = "summarised"
    /\ kde = NoKde
    /\ kde' = KDE_new(stats.data)
    /\ UNCHANGED <<pc, entry, mmap, scale, exit_msg, chunks, results, data, stats,
                   query, kquery, plot, points>>

\* a pdf that stores its cutoff as the bandwidth
Pdf_storing_cutoff(x) ==
    /\ pc = "summarised"
    /\ kde # NoKde
    /\ LET r == KDE_pdf(kde, x)
       IN  /\ kquery' = <<"pdf", x, r>>
           /\ pc' = IF r.panic THEN "panicked" ELSE pc
    /\ kde' = [kde EXCEPT !.bandwidth = RMul(Fin(4), @)]
    /\ UNCHANGED <<entry, mmap, scale, exit_msg, chunks, results, data, stats,
                   query, plot, points>>

\* kde.pdf(x)
Pdf(x) ==
    /\ pc = "summarised"
    /\ kde # NoKde
    /\ LET r == KDE_pdf(kde, x)
       IN  /\ kquery' = <<"pdf", x, r>>
           /\ pc' = IF r.panic THEN "panicked" ELSE pc
    /\ UNCHANGED <<entry, mmap, scale, exit_msg, chunks, results, data, stats,
                   query, kde, plot, points>>

\* kde.bounds()
Bounds ==
    /\ pc = "summarised"
    /\ kde # NoKde
    /\ kquery' = <<"bounds", KDE_bounds(kde)>>
    /\ UNCHANGED <<pc, entry, mmap, scale, exit_msg, chunks, results, data, stats,
                   query, kde, plot, points>>

\* The summary and the estimator over a vector of samples: one that
\* read_file_mmap returned (NaN and the infinities included) or one that the
\* caller built, as the benchmarks and the unit tests do.
RECURSIVE SeqsUpTo(_, _)
SeqsUpTo(S, len) ==
    IF len = 0 THEN { <<>> }
    ELSE LET shorter == SeqsUpTo(S, len - 1)
         IN  shorter \cup { Append(v, e) : v \in shorter, e \in S }

SampleVecs == SeqsUpTo(SampleValues, MaxSamples)

EstInit ==
    /\ pc = "parsed"
    /\ entry = "bench"
    /\ mmap = <<>>
    /\ scale = 1
    /\ exit_msg = ""
    /\ chunks = <<>>
    /\ results = <<>>
    /\ data \in SampleVecs
    /\ stats = NoStats
    /\ query = <<>>
    /\ kde = NoKde
    /\ kquery = <<>>
    /\ plot = NoPlot
    /\ points = <<>>

EstNext ==
    \/ StatsNew
    \/ \E q \in Qs : Quantile(q)
    \/ KdeNew
    \/ \E x \in PdfPoints : Pdf(x)
    \/ Bounds

EstSpec == EstInit /\ [][EstNext]_vars

\* plot_kde, lines 361-362 and the fork of into_par_iter at line 368
PlotStart ==
    /\ pc = "summarised"
    /\ entry = "main"
    /\ kde = NoKde
    /\ pc' = "plotting"
    /\ kde' = KDE_new_sorting(stats.data)
    /\ plot' = [slots |-> [i \in 1..ChartWidth |-> NoPoint], finished |-> <<>>]
    /\ UNCHANGED <<entry, mmap, scale, exit_msg, chunks, results, data, stats,
                   query, kquery, points>>

\* plot_kde, lines 370-375: the closure for index i on a pool thread
PlotEval(i) ==
    /\ pc = "plotting"
    /\ i \in 0..(ChartWidth - 1)
    /\ \lnot plot.slots[i + 1].done
    /\ LET r == plot_point(kde, i, ChartWidth)
       IN  IF r.panic
           THEN pc' = "panicked" /\ plot' = plot
           ELSE /\ pc' = pc
                /\ plot' = [slots |-> [plot.slots EXCEPT
                                          ![i + 1] = [done |-> TRUE, point |-> r.point]],
                            finished |-> Append(plot.finished, i)]
    /\ UNCHANGED <<entry, mmap, scale, exit_msg, chunks, results, data, stats,
                   query, kde, kquery, points>>

\* points assembled in the order the evaluations finished
PlotCollect_by_completion ==
    /\ pc = "plotting"
    /\ \A i \in 1..ChartWidth : plot.slots[i].done
    /\ pc' = "plotted"
    /\ points' = [k \in 1..ChartWidth |-> plot.slots[plot.finished[k] + 1].point]
    /\ UNCHANGED <<entry, mmap, scale, exit_msg, chunks, results, data, stats,
                   query, kde, kquery, plot>>

\* plot_kde, line 376: collect() of the indexed parallel iterator
PlotCollect ==
    /\ pc = "plotting"
    /\ \A i \in 1..ChartWidth : plot.slots[i].done
    /\ pc' = "plotted"
    /\ points' = [k \in 1..ChartWidth |-> plot.slots[k].point]
    /\ UNCHANGED <<entry, mmap, scale, exit_msg, chunks, results, data, stats,
                   query, kde, kquery, plot>>

\* The binary: read_input, Stats::new and plot_kde over a few short inputs.
PlotLineSet == { <<"1">>, <<"-", "1">>, <<"0", "x", "2">>, <<"i", "n", "f">> }
PlotRegions ==
    { JoinLines(ls) : ls \in UNION { [1..k -> PlotLineSet] : k \in 0..MaxLines } }

PlotInit ==
    /\ pc = "start"
    /\ entry = ""
    /\ mmap \in PlotRegions
    /\ scale = 1
    /\ exit_msg = ""
    /\ chunks = <<>>
    /\ results = <<>>
    /\ data = <<>>
    /\ stats = NoStats
    /\ query = <<>>
    /\ kde = NoKde
    /\ kquery = <<>>
    /\ plot = NoPlot
    /\ points = <<>>

PlotNext ==
    \/ \E u \in Units : ReadInput(u)
    \/ NoInput
    \/ StatsNew
    \/ PlotStart
    \/ \E i \in 0..(ChartWidth - 1) : PlotEval(i)
    \/ PlotCollect

PlotSpec == PlotInit /\ [][PlotNext]_vars

\* The same program over inputs of one 0x line: the remainders are every
\* string of up to MaxHexLen characters of HexAlphabet, and two literals of 17
\* digits, 2^64 and a 1 behind sixteen zeros.
HexAlphabet == { "0", "f", "A", "g", "+" }
Zeros16 == [i \in 1..16 |-> "0"]
HexRemainders ==
    SeqsUpTo(HexAlphabet, MaxHexLen) \cup { <<"1">> \o Zeros16, Zeros16 \o <<"1">> }
HexRegions ==
    { pad \o <<"0", "x">> \o rem : pad \in { <<>>, <<" ">> }, rem \in HexRemainders }
        \cup { <<>>, <<"2">> }

HexInit ==
    /\ pc = "start"
    /\ entry = ""
    /\ mmap \in HexRegions
    /\ scale = 1
    /\ exit_msg = ""
    /\ chunks = <<>>
    /\ results = <<>>
    /\ data = <<>>
    /\ stats = NoStats
    /\ query = <<>>
    /\ kde = NoKde
    /\ kquery = <<>>
    /\ plot = NoPlot
    /\ points = <<>>

HexSpec == HexInit /\ [][Next]_vars

\* ------------------------------------------------------------ properties
AllDone == \A j \in 1..Len(results) : results[j].done
ChunkBytes(j) == SubSeq(mmap, chunks[j][1] + 1, chunks[j][2])
Summarised == stats # NoStats
Queried == Summarised /\ query # <<>>

\* the lines of a byte string, read off the positions of its newlines
CutPoints(bs) == {0, Len(bs) + 1} \cup {i \in 1..Len(bs) : bs[i] = NL}
NthCut(bs, m) ==
    CHOOSE c \in CutPoints(bs) : Cardinality({x \in CutPoints(bs) : x < c}) = m - 1
LinesBetweenNewlines(bs) ==
    [m \in 1..(Cardinality(CutPoints(bs)) - 1) |->
        SubSeq(bs, NthCut(bs, m) + 1, NthCut(bs, m + 1) - 1)]

RECURSIVE ValuesOfLines(_, _)
ValuesOfLines(ls, sc) ==
    IF ls = <<>> THEN <<>>
    ELSE (IF parse_line(Head(ls), sc).some THEN <<parse_line(Head(ls), sc).v>> ELSE <<>>)
         \o ValuesOfLines(Tail(ls), sc)

\* C1: the partitions' outputs, concatenated in partition order, are the
\* sequence of values that one parse_chunk over the whole region yields, for
\* every region and every worker count.
C1_PartitionedParseEqualsWhole ==
    /\ (pc = "forked" /\ AllDone)
          => flatten([j \in 1..Len(results) |-> results[j].values])
             = parse_chunk(mmap, scale)
    /\ (entry = "lib" /\ pc = "parsed") => data = parse_chunk(mmap, scale)

C1_Witness ==
    /\ pc = "forked" /\ AllDone
    /\ Len(chunks) >= 2
    /\ \A j \in 1..Len(chunks) : results[j].values # <<>>

\* C2: a worker's result is, in input order, exactly the values of the lines
\* of its chunk that parse; a malformed line neither stops the parse nor
\* removes the values of the lines around it.
C2_MalformedLineSkipped ==
    pc = "forked" =>
        \A j \in 1..Len(chunks) :
            results[j].done =>
                results[j].values = ValuesOfLines(LinesBetweenNewlines(ChunkBytes(j)), scale)

C2_Witness ==
    /\ pc = "forked"
    /\ \E j \in 1..Len(chunks) :
          /\ results[j].done
          /\ LET ls == LinesBetweenNewlines(ChunkBytes(j))
             IN  /\ Len(ls) = 3
                 /\ parse_line(ls[1], scale).some
                 /\ ls[2] # <<>> /\ \lnot parse_line(ls[2], scale).some
                 /\ parse_line(ls[3], scale).some
          /\ Len(results[j].values) = 2

\* C3 (as claimed): no value the parser returns is NaN or infinite.
C3_ParserDropsNonFinite ==
    /\ \A i \in 1..Len(data) : IsFinite(data[i])
    /\ \A j \in 1..Len(results) :
          \A i \in 1..Len(results[j].values) : IsFinite(results[j].values[i])

\* C4 (as claimed): the process ends while reading its input only when the
\* memory mapping could not be obtained, never because of a line's content.
C4_OnlyMappingFailureExits ==
    pc = "exited" => exit_msg = "error mapping file"

\* C5 (as claimed): Stats::new returns a summary for every sample set the
\* parser can return; it never panics.
C5_StatsNewTotal ==
    \lnot (pc = "panicked" /\ \lnot Summarised)

IsMinOf(x, samples) ==
    /\ \E i \in 1..Len(samples) : samples[i] = x
    /\ \A i \in 1..Len(samples) : \lnot FLt(samples[i], x)
IsMaxOf(x, samples) ==
    /\ \E i \in 1..Len(samples) : samples[i] = x
    /\ \A i \in 1..Len(samples) : \lnot FGt(samples[i], x)

\* C6: on a non-empty summary, quantile(q) returns the minimum sample for
\* every q <= 0 and the maximum sample for every q >= 1, without failing.
C6_QuantileClampsToMinMax ==
    (Queried /\ data # <<>>) =>
        /\ FLe(query[1], Zero) => (\lnot query[2].panic /\ IsMinOf(query[2].v, data))
        /\ FGe(query[1], One) => (\lnot query[2].panic /\ IsMaxOf(query[2].v, data))

C6_Witness ==
    /\ Queried
    /\ Len(data) = 3
    /\ FLt(data[3], data[1]) /\ FLt(data[1], data[2])
    /\ query[1] = Rat(3, 2)
    /\ query[2] = Returned(data[2])

\* C7 (as claimed): for fixed non-empty data, q1 <= q2 implies
\* quantile(q1) <= quantile(q2).
C7_QuantileMonotone ==
    (Queried /\ data # <<>> /\ \lnot query[2].panic) =>
        \A q2 \in Qs :
            FLe(query[1], q2) => FLe(query[2].v, quantile(stats, q2).v)

PermutedBy(samples, p) == [i \in 1..Len(samples) |-> samples[p[i]]]

\* C8: every permutation of the input vector gives the same summary (sorted
\* sequence, n, sum, mean, variance and the rest) and the same quantiles;
\* stated of the summary as Stats::new leaves it, before any query.
C8_OrderIndependent ==
    /\ (Summarised /\ query = <<>>) =>
          \A p \in Permutations(1..Len(data)) :
              LET permuted == Stats_new(PermutedBy(data, p))
              IN  /\ \lnot sort_panics(PermutedBy(data, p))
                  /\ permuted = stats
                  /\ \A q \in Qs : quantile(permuted, q) = quantile(stats, q)
    /\ (pc = "panicked" /\ \lnot Summarised) =>
          \A p \in Permutations(1..Len(data)) : sort_panics(PermutedBy(data, p))

C8_Witness ==
    /\ Summarised /\ query = <<>>
    /\ Len(data) = 3
    /\ FLt(data[3], data[1]) /\ FLt(data[1], data[2])
    /\ stats.data = <<data[3], data[1], data[2]>>

\* C9 (as claimed): geometric_mean is NaN if and only if some sample is <= 0.
C9_GeoMeanNaNIffNonPositive ==
    Summarised =>
        (IsNaN(stats.geo_mean) <=> \E i \in 1..Len(data) : FLe(data[i], Zero))

\* C9 (amended): geometric_mean is NaN if and only if the sample set is
\* empty or some sample is not strictly positive (a value <= 0, or NaN).
C9_GeoMeanNaNIffEmptyOrNotPositive ==
    Summarised =>
        (IsNaN(stats.geo_mean)
           <=> (data = <<>> \/ \E i \in 1..Len(data) : \lnot FGt(data[i], Zero)))

C9_Witness ==
    /\ Summarised
    /\ Len(data) >= 2
    /\ \E i \in 1..Len(data) : FEq(data[i], Zero)
    /\ \A i \in 1..Len(data) : FGe(data[i], Zero)
    /\ IsNaN(stats.geo_mean)

\* C10: on a summary of the empty sample set, quantile(q) is NaN for every
\* q and never fails.
C10_EmptyQuantileIsNaN ==
    (Queried /\ stats.data = <<>>) =>
        (\lnot query[2].panic /\ IsNaN(query[2].v))

C10_Witness ==
    /\ Queried
    /\ stats.data = <<>>
    /\ query[1] = Rat(3, 2)
    /\ pc = "summarised"

\* the rank q * (n - 1) of a quantile over n samples, as the claim computes it
RankOf(q, n) == FMul(q, Fin(n - 1))
Interior(q) == FLt(Zero, q) /\ FLt(q, One)

\* C11 (as claimed): on n >= 1 samples and 0 < q < 1, quantile(q) is
\* sorted[lo] * (1 - frac) + sorted[hi] * frac with rank = q * (n - 1),
\* lo = floor(rank), hi = ceil(rank), frac = rank - lo; lo and hi are valid
\* indices (0 <= lo <= hi <= n - 1); and when rank is an integer k the result
\* is exactly sorted[k], so one sample is returned for every q.
C11_QuantileInterpolates ==
    (Queried /\ stats.n >= 1 /\ Interior(query[1])) =>
        LET rank == RankOf(query[1], stats.n)
            lo == AsUsize(FFloor(rank))
            hi == AsUsize(FCeil(rank))
            frac == FSub(rank, Fin(lo))
        IN  /\ \lnot query[2].panic
            /\ 0 <= lo /\ lo <= hi /\ hi <= stats.n - 1
            /\ query[2].v = FAdd(FMul(stats.data[lo + 1], FSub(One, frac)),
                                 FMul(stats.data[hi + 1], frac))
            /\ rank = Fin(lo) => query[2].v = stats.data[lo + 1]

\* C12: after Stats::new the stored samples are in ascending order, are a
\* permutation of the input (duplicates kept), and n is their number.
C12_SortedPermutationOfInput ==
    Summarised =>
        /\ \A i \in 1..(Len(stats.data) - 1) : FLe(stats.data[i], stats.data[i + 1])
        /\ \A i \in 1..Len(data) :
              Cardinality({ k \in 1..Len(stats.data) : stats.data[k] = data[i] })
                  = Cardinality({ k \in 1..Len(data) : data[k] = data[i] })
        /\ stats.n = Len(data)
        /\ stats.n = Len(stats.data)

C12_Witness ==
    /\ Summarised
    /\ Len(data) = 3
    /\ data[1] = data[3]
    /\ FLt(data[2], data[1])
    /\ stats.data = <<data[2], data[1], data[3]>>

PdfAsked == kquery # <<>> /\ kquery[1] = "pdf"
BoundsAsked == kquery # <<>> /\ kquery[1] = "bounds"
IsSample(x, samples) == \E i \in 1..Len(samples) : samples[i] = x
\* v > 0 for a value of the model
PositiveValue(v) ==
    CASE v.k = "sym" -> TRUE
      [] v.k = "rng" -> FGe(v.lo, Zero)
      [] OTHER -> FGt(v, Zero)
PositiveFinite(v) == PositiveValue(v) /\ v.k # "inf"

\* C13 (as claimed): for every non-empty sorted sample sequence, pdf(x_i) > 0
\* at every data point x_i.
C13_PdfPositiveAtSamples ==
    (PdfAsked /\ kde.data # <<>> /\ IsSample(kquery[2], kde.data)) =>
        (\lnot kquery[3].panic /\ PositiveValue(kquery[3].v))

\* C13 (amended): pdf(x_i) > 0 at every data point x_i whenever the
\* bandwidth is a finite number above zero; with a bandwidth of zero (one
\* sample, or all samples equal) pdf(x_i) is NaN.
C13_PdfPositiveWhenBandwidthPositive ==
    (PdfAsked /\ kde.data # <<>> /\ IsSample(kquery[2], kde.data)) =>
        /\ \lnot kquery[3].panic
        /\ PositiveFinite(kde.bandwidth) => PositiveValue(kquery[3].v)
        /\ kde.bandwidth = Zero => IsNaN(kquery[3].v)

C13_Witness ==
    /\ PdfAsked
    /\ Len(kde.data) = 3
    /\ PositiveFinite(kde.bandwidth)
    /\ kquery[2] = kde.data[2]
    /\ PositiveValue(kquery[3].v)
    /\ kquery[3].start_idx = 0 /\ kquery[3].end_idx = 3

\* C14: KDE::new, pdf and bounds return for every sample count, zero and one
\* included: nothing fails once the summary exists, and the window of pdf
\* satisfies start_idx <= end_idx.
C14_EstimatorTotal ==
    /\ pc = "panicked" => (\lnot Summarised /\ kde = NoKde /\ kquery = <<>>)
    /\ kde # NoKde => kde.data = stats.data
    /\ PdfAsked =>
          /\ \lnot kquery[3].panic
          /\ 0 <= kquery[3].start_idx
          /\ kquery[3].start_idx <= kquery[3].end_idx
          /\ kquery[3].end_idx <= Len(kde.data)

C14_Witness ==
    /\ PdfAsked
    /\ Len(kde.data) <= 1
    /\ \lnot kquery[3].panic
    /\ pc = "summarised"

\* C15 (as claimed): on an empty sample sequence bounds() returns exactly
\* (0.0, 1.0).
C15_EmptyBoundsZeroOne ==
    (BoundsAsked /\ kde.data = <<>>) => kquery[2] = <<Zero, One>>

\* C15 (amended): on an empty sample sequence bounds() returns (0.0, 1.1):
\* 0.0 and 1.0 stand in for the minimum and the maximum, and the padding of a
\* tenth of their distance is applied as for any other data.
C15_EmptyBoundsPadded ==
    (BoundsAsked /\ kde.data = <<>>) => kquery[2] = <<Zero, Rat(11, 10)>>

C15_Witness == BoundsAsked /\ kde.data = <<>> /\ kde # NoKde

MinOf(samples) == samples[1]
MaxOf(samples) == samples[Len(samples)]

\* C16 (as claimed): on non-empty data the lower bound is never below 0 when
\* the minimum is >= 0, and is strictly less than the minimum whenever the
\* minimum is negative.
C16_LowerBoundSign ==
    (BoundsAsked /\ kde.data # <<>>) =>
        /\ FGe(MinOf(kde.data), Zero) => FGe(kquery[2][1], Zero)
        /\ FLt(MinOf(kde.data), Zero) => FLt(kquery[2][1], MinOf(kde.data))

\* C16 (amended): on non-empty data the lower bound is never below 0 when
\* the minimum is >= 0; when the minimum is negative and finite the lower
\* bound is never above it, and it equals the minimum when all samples are
\* equal (one sample included).
C16_LowerBoundSignOrEqual ==
    (BoundsAsked /\ kde.data # <<>>) =>
        /\ FGe(MinOf(kde.data), Zero) => FGe(kquery[2][1], Zero)
        /\ (FLt(MinOf(kde.data), Zero) /\ IsFinite(MinOf(kde.data))) =>
              /\ FLe(kquery[2][1], MinOf(kde.data))
              /\ MaxOf(kde.data) = MinOf(kde.data)
                    => kquery[2][1] = MinOf(kde.data)

C16_Witness ==
    /\ BoundsAsked
    /\ Len(kde.data) = 2
    /\ FLt(MinOf(kde.data), Zero)
    /\ MaxOf(kde.data) = MinOf(kde.data)
    /\ kquery[2][1] = MinOf(kde.data)

\* C17 (as claimed): on non-empty sorted data bounds() returns (low, high)
\* with high = max + 0.1 * (max - min) and low = min - 0.1 * (max - min)
\* unless clamped up to 0, and the range contains every sample: low <= min
\* and high >= max.
C17_BoundsContainSamples ==
    (BoundsAsked /\ kde.data # <<>>) =>
        LET lo == MinOf(kde.data)
            hi == MaxOf(kde.data)
            pad == FMul(Rat(1, 10), FSub(hi, lo))
        IN  /\ kquery[2][2] = FAdd(hi, pad)
            /\ kquery[2][1] = FSub(lo, pad) \/ kquery[2][1] = Zero
            /\ FLe(kquery[2][1], lo)
            /\ FGe(kquery[2][2], hi)

\* C20: once built, no quantile, pdf or bounds query changes the summary
\* (sorted samples, n, sum, mean, variance and the rest), the input, or the
\* estimator (its samples and the bandwidth computed in KDE::new).
C20_QueriesChangeNothing ==
    [][ /\ Summarised => (stats' = stats /\ data' = data)
        /\ kde # NoKde => kde' = kde ]_vars

C20_Witness ==
    /\ query # <<>>
    /\ PdfAsked
    /\ PositiveFinite(kde.bandwidth)
    /\ pc = "summarised"

\* a line without its leading and trailing whitespace
TrimmedLine(bs) ==
    LET inked == { i \in 1..Len(bs) : \lnot IsAsciiWhitespace(bs[i]) }
    IN  IF inked = {} THEN <<>>
        ELSE SubSeq(bs, CHOOSE i \in inked : \A j \in inked : i <= j,
                        CHOOSE i \in inked : \A j \in inked : j <= i)
HexRemainder(bs) == SubSeq(TrimmedLine(bs), 3, Len(TrimmedLine(bs)))
\* one or more hexadecimal digits that write a number below 2^64
IsHexLiteral(ds) ==
    /\ ds # <<>>
    /\ \A i \in 1..Len(ds) : IsHexDigit(ds[i])
    /\ \A i \in 1..(Len(ds) - 16) : ds[i] = "0"
WithoutPlus(ds) == IF ds # <<>> /\ ds[1] = "+" THEN Tail(ds) ELSE ds
OneHexLine ==
    /\ pc = "parsed" /\ entry = "lib"
    /\ \A i \in 1..Len(mmap) : mmap[i] # NL
    /\ has_0x_prefix(TrimmedLine(mmap))

\* C18 (as claimed): a trimmed line beginning with 0x yields a value if and
\* only if the remainder is a valid hexadecimal literal that fits in u64; the
\* value is that integer times scale; a 0x line whose remainder is empty,
\* not hexadecimal or above 2^64 - 1 is dropped, not re-parsed as decimal.
C18_HexValueIffHexLiteral ==
    OneHexLine =>
        IF IsHexLiteral(HexRemainder(mmap))
        THEN data = << Fin(DigitsValue(HexRemainder(mmap), 16, 0) * scale) >>
        ELSE data = <<>>

\* C18 (amended): a trimmed line beginning with 0x yields a value if and only
\* if the remainder is an optional '+' followed by one or more hexadecimal
\* digits whose number fits in u64; the value is that integer times scale;
\* every other 0x line is dropped, not re-parsed as decimal.
C18_HexValueIffPlusHexLiteral ==
    OneHexLine =>
        IF IsHexLiteral(WithoutPlus(HexRemainder(mmap)))
        THEN data = << Fin(DigitsValue(WithoutPlus(HexRemainder(mmap)), 16, 0) * scale) >>
        ELSE data = <<>>

C18_Witness ==
    /\ OneHexLine
    /\ mmap = <<" ", "0", "x", "+", "f">>
    /\ scale = 1000
    /\ data = << Fin(15000) >>

\* C19: on an empty region read_file_mmap returns the empty value set in its
\* next step: no partition is computed and no worker runs.
C19_EmptyRegionReturnsAtOnce ==
    [][ (pc = "mapped" /\ mmap = <<>>) =>
            (pc' = "parsed" /\ data' = <<>> /\ chunks' = <<>> /\ results' = <<>>) ]_vars

C19_Witness ==
    /\ pc = "parsed" /\ entry = "lib"
    /\ mmap = <<>>
    /\ data = <<>> /\ chunks = <<>> /\ results = <<>>

\* C21: for a non-empty region of length L and every worker count the
\* partitions are contiguous, do not overlap and cover the region: the
\* first starts at 0, the last ends at L, each ends where the next starts,
\* each has start <= end <= L, and every byte is in exactly one of them.
C21_PartitionsCoverRegion ==
    pc = "forked" =>
        /\ chunks # <<>>
        /\ chunks[1][1] = 0
        /\ chunks[Len(chunks)][2] = Len(mmap)
        /\ \A j \in 1..(Len(chunks) - 1) : chunks[j][2] = chunks[j + 1][1]
        /\ \A j \in 1..Len(chunks) :
              0 <= chunks[j][1] /\ chunks[j][1] <= chunks[j][2] /\ chunks[j][2] <= Len(mmap)
        /\ \A b \in 0..(Len(mmap) - 1) :
              Cardinality({ j \in 1..Len(chunks) :
                              chunks[j][1] <= b /\ b < chunks[j][2] }) = 1

C21_Witness ==
    /\ pc = "forked"
    /\ Len(chunks) = 3
    /\ chunks[2][1] = chunks[2][2]
    /\ chunks[1][2] < Len(mmap)

\* C22: every partition boundary other than 0 and the region's length is
\* the offset right after a newline byte, for every region and worker count,
\* lines longer than the naive segment included.
C22_BoundariesFollowNewlines ==
    pc = "forked" =>
        \A j \in 1..Len(chunks) : \A b \in { chunks[j][1], chunks[j][2] } :
            b = 0 \/ b = Len(mmap) \/ mmap[b] = NL

C22_Witness ==
    /\ pc = "forked"
    /\ mmap = <<"n", "a", "n", NL, "1">>
    /\ chunks = << <<0, 4>>, <<4, 5>> >>

\* the naive cuts i * ceil(L / t), 1 <= i < t, that lie inside the region
\* and have a newline at or after them
KeptCuts(bs, t) ==
    { i \in 1..(t - 1) :
        /\ i * div_ceil(Len(bs), t) < Len(bs)
        /\ \E p \in (i * div_ceil(Len(bs), t) + 1)..Len(bs) : bs[p] = NL }

\* C23 (as claimed): a non-empty region is split into as many partitions as
\* there are workers.
C23_OnePartitionPerWorker ==
    [][ \A t \in 1..MaxThreads : Partition(t) => Len(chunks') = t ]_vars

\* C23 (amended): a non-empty region is split into at least one and at most
\* as many partitions as there are workers: one, plus one for every naive
\* cut that lies inside the region and has a newline at or after it.
C23_AtMostOnePartitionPerWorker ==
    [][ \A t \in 1..MaxThreads :
            Partition(t) =>
                /\ 1 <= Len(chunks') /\ Len(chunks') <= t
                /\ Len(chunks') = 1 + Cardinality(KeptCuts(mmap, t)) ]_vars

C23_Witness ==
    /\ pc = "forked"
    /\ Len(mmap) >= 2
    /\ \A i \in 1..Len(mmap) : mmap[i] # NL
    /\ Len(chunks) = 1

\* C24: the parallel parse is a fork-join without shared mutable state:
\* whatever the order in which the workers finish, a worker's step writes
\* its own result only, the join happens only after every worker has
\* finished, and the final values are the workers' results concatenated in
\* partition order, each partition's values once.
C24_ForkJoin ==
    [][ /\ (pc = "forked" /\ pc' = "forked") =>
              /\ chunks' = chunks /\ mmap' = mmap /\ data' = data
              /\ Cardinality({ j \in 1..Len(results) : results'[j] # results[j] }) = 1
              /\ \A j \in 1..Len(results) :
                    results'[j] # results[j] =>
                        /\ \lnot results[j].done
                        /\ results'[j] = Done(parse_chunk(ChunkBytes(j), scale))
        /\ (pc = "forked" /\ pc' # "forked") =>
              /\ pc' = "parsed"
              /\ AllDone
              /\ data' = flatten([j \in 1..Len(chunks) |->
                                     parse_chunk(ChunkBytes(j), scale)]) ]_vars

C24_Witness ==
    /\ pc = "forked"
    /\ Len(chunks) = 3
    /\ results[3].done /\ results[3].values # <<>>
    /\ results[2].done /\ results[2].values # <<>>
    /\ \lnot results[1].done

\* the cutoffs x - 4h and x + 4h of a query at x
LowerCutoff(x, h) == RSub(x, RMul(Fin(4), h))
UpperCutoff(x, h) == RAdd(x, RMul(Fin(4), h))
InWindow(xi, x, h) == \lnot RLt(xi, LowerCutoff(x, h)) /\ RLe(xi, UpperCutoff(x, h))

\* C25: for sorted data and a bandwidth h >= 0, pdf(x) sums the kernel over
\* exactly the samples x_i with x - 4h <= x_i <= x + 4h: start_idx is the
\* number of samples < x - 4h, end_idx the number of samples <= x + 4h,
\* start_idx <= end_idx, no sample inside the window is left out and none
\* outside it is taken in.
C25_WindowIsExact ==
    (PdfAsked /\ (kde.bandwidth = Zero \/ PositiveValue(kde.bandwidth))) =>
        LET x == kquery[2]
            h == kde.bandwidth
            xs == kde.data
            r == kquery[3]
        IN  /\ \lnot r.panic
            /\ r.start_idx = Cardinality({ i \in 1..Len(xs) : RLt(xs[i], LowerCutoff(x, h)) })
            /\ r.end_idx = Cardinality({ i \in 1..Len(xs) : RLe(xs[i], UpperCutoff(x, h)) })
            /\ r.start_idx <= r.end_idx
            /\ \A i \in 1..Len(xs) :
                  (r.start_idx < i /\ i <= r.end_idx) <=> InWindow(xs[i], x, h)

C25_Witness ==
    /\ PdfAsked
    /\ PositiveFinite(kde.bandwidth)
    /\ kquery[3].start_idx > 0
    /\ kquery[3].end_idx > kquery[3].start_idx
    /\ \lnot kquery[3].panic

\* the coordinate of query index i, between the bounds of the estimator
QueryCoordinate(i) ==
    LET b == KDE_bounds(kde)
    IN  FAdd(b[1], FMul(FSub(b[2], b[1]), FDiv(Fin(i), Fin(ChartWidth - 1))))
\* the point plotted for query index i: (x_i, pdf(x_i)), both stored as f32
QueryPoint(i) ==
    << as_f32(QueryCoordinate(i)), as_f32(KDE_pdf(kde, QueryCoordinate(i)).v) >>

\* C26: the density queries of a plot are evaluated in parallel and put
\* together by query index: whatever the order in which the evaluations
\* finish, the i-th output point is (x_i, pdf(x_i)) for the i-th query
\* coordinate, and every query index appears exactly once.
C26_PointsInQueryOrder ==
    /\ pc = "plotting" =>
          /\ Len(plot.slots) = ChartWidth
          /\ \A i \in 0..(ChartWidth - 1) :
                /\ plot.slots[i + 1].done
                      <=> Cardinality({ k \in 1..Len(plot.finished) :
                                          plot.finished[k] = i }) = 1
                /\ plot.slots[i + 1].done => plot.slots[i + 1].point = QueryPoint(i)
          /\ \A k \in 1..Len(plot.finished) : plot.finished[k] \in 0..(ChartWidth - 1)
    /\ pc = "plotted" =>
          /\ Len(points) = ChartWidth
          /\ \A i \in 0..(ChartWidth - 1) : points[i + 1] = QueryPoint(i)
          /\ Len(plot.finished) = ChartWidth
          /\ \A i \in 0..(ChartWidth - 1) :
                Cardinality({ k \in 1..Len(plot.finished) : plot.finished[k] = i }) = 1

C26_Witness ==
    /\ pc = "plotted"
    /\ plot.finished[1] = ChartWidth - 1
    /\ plot.finished[ChartWidth] = 0
    /\ points[1] # points[2] /\ points[2] # points[ChartWidth]
    /\ PositiveFinite(kde.bandwidth)

====
